---- MODULE Spec2Model ----
(***************************************************************************)
(* The OAuth installation handshake of thecartsave-auth, in its three      *)
(* variants: src/index.js, src/unnamed/part_000 (session-backed) and       *)
(* src/unnamed/part_002.  GET /oauth builds the authorization redirect,    *)
(* GET /oauth/callback validates the callback, exchanges the code at the   *)
(* shop's token endpoint and upserts the access token into table shops.    *)
(* The routes of part_002 are modelled as registered and served.           *)
(*                                                                         *)
(* Strings are sequences of labels (a shop domain is the sequence of its   *)
(* parts); a state token is <<"state", n>>, the n-th value of the generator *)
(* (random values are modelled as fresh; <<"state", 0>> is a value it never   *)
(* produces).  Durations are milliseconds, as in the source.               *)
(***************************************************************************)
EXTENDS Integers, Sequences, FiniteSets, TLC

\* ---------------------------------------------------------------- bounds
MaxOAuth == 2
MaxReqs == 2
MaxAdvances == 1
MaxJobs == 2
MaxJobOps == 3

\* ------------------------------------------------------------- constants
Variants == {"index", "part_000", "part_002"}

\* the platform suffix '.myshopify.com'
Suffix == <<".myshopify", ".com">>

\* JavaScript's undefined, for a string-valued query parameter
undefined == <<"undefined">>

ShopA == <<"shop-a">> \o Suffix
ShopB == <<"shop-b">> \o Suffix
\* contains the suffix, does not end with it: shop-a.myshopify.com.evil.io
ShopEvil == <<"shop-a">> \o Suffix \o <<".evil.io">>
\* does not contain the suffix
ShopOther == <<"shop-a", ".example", ".com">>

\* req.query.shop of GET /oauth
OAuthShops == {undefined, <<>>, ShopA, ShopB, ShopEvil, ShopOther}
\* req.query.shop, req.query.code of GET /oauth/callback
CallbackShops == {undefined, ShopA, ShopB}
Codes == {undefined, <<"code123">>}

\* access tokens the token endpoint may return
Tokens == {"tok1", "tok2"}
Tenants == {ShopA, ShopB}

\* cookie-session: maxAge of the session cookie (part_000)
maxAge == 24 * 60 * 60 * 1000
\* the expiry window of a pending authorization the specification asks for
ExpiryWindow == 10 * 60 * 1000

\* a session without oauthState and shop (no cookie, or a cleared one)
EmptySession == [oauthState |-> undefined, shop |-> undefined]

VARIABLES
    variant,      \* which of the three programs runs
    databaseUrl,  \* whether DATABASE_URL is set (index.js)
    now,          \* the clock, ms
    advances,     \* how often the clock was advanced
    oauthLog,     \* the responses of GET /oauth, in order
    cookies,      \* every session cookie value the server has set
    jar,          \* the session cookie the browser holds
    jarSetAt,     \* when the browser received it
    callbacks,    \* the GET /oauth/callback requests, in order of arrival
    shops,        \* table shops: its rows (shop, access_token; in index.js also
                  \* id, plan, settings, created_at, updated_at)
    jobs,         \* table repurpose_jobs: its rows (index.js)
    jobLog        \* the responses of the jobs API, in order (index.js)

vars == <<variant, databaseUrl, now, advances, oauthLog, cookies, jar, jarSetAt,
          callbacks, shops, jobs, jobLog>>

\* ------------------------------------------------------------- helpers
\* !v of JavaScript for a string-valued parameter
Falsy(v) == v = undefined \/ v = <<>>

\* String.prototype.includes
Includes(s, sub) ==
    \E i \in 1..(Len(s) - Len(sub) + 1) : SubSeq(s, i, i + Len(sub) - 1) = sub

\* String.prototype.endsWith
EndsWith(s, sub) ==
    /\ Len(s) >= Len(sub)
    /\ SubSeq(s, Len(s) - Len(sub) + 1, Len(s)) = sub

\* the redirects (302) among the /oauth responses
Redirects == {i \in 1..Len(oauthLog) : oauthLog[i].status = 302}

\* crypto.randomBytes(16).toString('hex') / Math.random().toString(36): the
\* next value of the generator
GenState == <<"state", Cardinality(Redirects) + 1>>

Init ==
    /\ variant \in Variants
    /\ databaseUrl \in BOOLEAN
    /\ (variant # "index" => databaseUrl)
    /\ now = 0
    /\ advances = 0
    /\ oauthLog = <<>>
    /\ cookies = {}
    /\ jar = EmptySession
    /\ jarSetAt = 0
    /\ callbacks = <<>>
    /\ shops = {}
    /\ jobs = {}
    /\ jobLog = <<>>

\* ------------------------------------------------------------ GET /oauth
\* the requested scopes, in order
ScopeList == <<"read_products", "write_checkouts", "read_orders", "read_customers",
               "write_marketing_events", "write_discounts">>

\* Array.prototype.join
RECURSIVE Join(_, _)
Join(list, sep) ==
    IF Len(list) = 0 THEN <<>>
    ELSE IF Len(list) = 1 THEN <<list[1]>>
    ELSE <<list[1], sep>> \o Join(Tail(list), sep)

\* process.env.HOST: https://thecartsave-auth.vercel.app
HOST == <<"https", ":", "/", "/", "thecartsave-auth.vercel.app">>

\* `${HOST}/oauth/callback`
RedirectUri == HOST \o <<"/", "oauth", "/", "callback">>

\* encodeURIComponent of one character: the reserved ones become %XX
EncodeChar(c) ==
    IF c = "," THEN <<"%", "2C">>
    ELSE IF c = ":" THEN <<"%", "3A">>
    ELSE IF c = "/" THEN <<"%", "2F">>
    ELSE IF c = "%" THEN <<"%", "25">>
    ELSE <<c>>

\* encodeURIComponent
RECURSIVE EncodeURIComponent(_)
EncodeURIComponent(str) ==
    IF Len(str) = 0 THEN <<>>
    ELSE EncodeChar(Head(str)) \o EncodeURIComponent(Tail(str))

\* the scope and redirect_uri values put into the authorization URL
AuthUrl000 == [scope |-> Join(ScopeList, ","),
               redirect_uri |-> EncodeURIComponent(RedirectUri)]
AuthUrlIndex == [scope |-> Join(ScopeList, ","), redirect_uri |-> RedirectUri]
AuthUrl002 == [scope |-> Join(ScopeList, ","), redirect_uri |-> RedirectUri]
NoUrl == [scope |-> <<>>, redirect_uri |-> <<>>]

AuthUrl ==
    IF variant = "part_000" THEN AuthUrl000
    ELSE IF variant = "index" THEN AuthUrlIndex
    ELSE AuthUrl002

\* what produces the state: crypto.randomBytes(16) gives 16 random bytes of the
\* system's secure generator, Math.random() one double (at most 53 random bits)
\* of a generator that is not secure
RandomBytes16 == [bits |-> 8 * 16, secure |-> TRUE]
MathRandom == [bits |-> 53, secure |-> FALSE]
NoGenerator == [bits |-> 0, secure |-> FALSE]

Generator == IF variant = "index" THEN MathRandom ELSE RandomBytes16

OAuthRejected(shop, body) ==
    /\ oauthLog' = Append(oauthLog,
          [shop |-> shop, status |-> 400, body |-> body, state |-> undefined, at |-> now,
           url |-> NoUrl, generator |-> NoGenerator])
    /\ UNCHANGED <<cookies, jar, jarSetAt>>

OAuthRedirect(shop, state) ==
    oauthLog' = Append(oauthLog,
          [shop |-> shop, status |-> 302, body |-> "authUrl", state |-> state, at |-> now,
           url |-> AuthUrl, generator |-> Generator])

\* part_000: the shop check of GET /oauth
ShopAccepted000(shop) == Includes(shop, Suffix)

OAuthPart000(shop) ==
    /\ variant = "part_000"
    /\ Len(oauthLog) < MaxOAuth
    /\ IF Falsy(shop) THEN OAuthRejected(shop, "Missing shop parameter")
       ELSE IF ~ShopAccepted000(shop) THEN OAuthRejected(shop, "Invalid shop domain")
       ELSE LET state == GenState
                session == [oauthState |-> state, shop |-> shop]
            IN  /\ jar' = session
                /\ jarSetAt' = now
                /\ cookies' = cookies \cup {session}
                /\ OAuthRedirect(shop, state)
    /\ UNCHANGED <<jobs, jobLog, variant, databaseUrl, now, advances, callbacks, shops>>

OAuthIndex(shop) ==
    /\ variant = "index"
    /\ Len(oauthLog) < MaxOAuth
    /\ IF Falsy(shop) THEN OAuthRejected(shop, "Missing shop parameter")
       ELSE /\ OAuthRedirect(shop, GenState)
            /\ UNCHANGED <<cookies, jar, jarSetAt>>
    /\ UNCHANGED <<jobs, jobLog, variant, databaseUrl, now, advances, callbacks, shops>>

OAuthPart002(shop) ==
    /\ variant = "part_002"
    /\ Len(oauthLog) < MaxOAuth
    /\ IF Falsy(shop) THEN OAuthRejected(shop, "Missing shop")
       ELSE /\ OAuthRedirect(shop, GenState)
            /\ UNCHANGED <<cookies, jar, jarSetAt>>
    /\ UNCHANGED <<jobs, jobLog, variant, databaseUrl, now, advances, callbacks, shops>>

\* --------------------------------------------------- GET /oauth/callback
\* the session cookie the browser sends: none once maxAge has passed
BrowserCookie == IF now - jarSetAt <= maxAge THEN jar ELSE EmptySession

\* the session a client presents: the browser sends the cookie it holds, any
\* other client sends any other cookie value the server has ever set, or none
Presentable(client) ==
    IF client = "browser" THEN {BrowserCookie}
    ELSE (cookies \cup {EmptySession}) \ {BrowserCookie}

\* req.query.state of a request: absent, never generated, or generated so far
StatesSoFar == {undefined, <<"state", 0>>} \cup {<<"state", n>> : n \in 1..Cardinality(Redirects)}

\* the token endpoint has not answered the request (yet)
NoAnswer == [kind |-> "none", access_token |-> "", ok |-> FALSE]

Request(client, shop, code, state, session) ==
    [client |-> client, shop |-> shop, code |-> code, state |-> state,
     session |-> session, at |-> now, pc |-> "received", status |-> 0,
     body |-> "", token |-> "", sent |-> FALSE, wrote |-> FALSE,
     answer |-> NoAnswer, fetches |-> 0, queries |-> 0]

\* res.status(status).send(body) ends the request
Respond(r, status, body) == [r EXCEPT !.pc = "done", !.status = status, !.body = body]

\* fetch(`https://${shop}/admin/oauth/access_token`, ...) is called and awaited
Fetch(r) == [r EXCEPT !.pc = "fetch", !.sent = TRUE, !.fetches = @ + 1]

\* a handler that would only require the shop
MissingShopOnly(r) == Falsy(r.shop)

\* if (!shop || !code)
MissingParams(r) == Falsy(r.shop) \/ Falsy(r.code)

\* part_000: if (!state || state !== req.session.oauthState)
InvalidState(r) == Falsy(r.state) \/ r.state # r.session.oauthState

\* the callback of index.js and part_002: the shop is not compared with anything
NoShopCheck(r) == FALSE

\* part_000: if (shop !== req.session.shop)
ShopMismatch(r) == r.shop # r.session.shop

\* part_000: the handler up to its first await
Validate000(r) ==
    IF MissingParams(r) THEN Respond(r, 400, "Missing required params")
    ELSE IF InvalidState(r) THEN Respond(r, 400, "Invalid state parameter")
    ELSE IF ShopMismatch(r) THEN Respond(r, 400, "Shop mismatch")
    ELSE Fetch(r)

\* index.js: the handler up to its first await
ValidateIndex(r) ==
    IF MissingParams(r) THEN Respond(r, 400, "Missing required parameters")
    ELSE Fetch(r)

\* part_002: the handler up to its first await
Validate002(r) ==
    IF MissingParams(r) THEN Respond(r, 400, "Missing required params")
    ELSE Fetch(r)

Arrive(client, shop, code, state, session, handled) ==
    /\ Len(callbacks) < MaxReqs
    /\ session \in Presentable(client)
    /\ callbacks' = Append(callbacks, handled)
    /\ UNCHANGED <<jobs, jobLog, variant, databaseUrl, now, advances, oauthLog, cookies, jar,
                   jarSetAt, shops>>

\* a handler that would drop the session whenever it rejects a callback
CallbackClearing000(client, shop, code, state, session) ==
    /\ variant = "part_000"
    /\ Len(callbacks) < MaxReqs
    /\ session \in Presentable(client)
    /\ LET handled == Validate000(Request(client, shop, code, state, session)) IN
       /\ callbacks' = Append(callbacks, handled)
       /\ jar' = IF handled.pc = "done" /\ client = "browser" THEN EmptySession ELSE jar
    /\ UNCHANGED <<jobs, jobLog, variant, databaseUrl, now, advances, oauthLog, cookies, jarSetAt, shops>>

CallbackPart000(client, shop, code, state, session) ==
    /\ variant = "part_000"
    /\ Arrive(client, shop, code, state, session,
              Validate000(Request(client, shop, code, state, session)))

CallbackIndex(client, shop, code, state, session) ==
    /\ variant = "index"
    /\ Arrive(client, shop, code, state, session,
              ValidateIndex(Request(client, shop, code, state, session)))

CallbackPart002(client, shop, code, state, session) ==
    /\ variant = "part_002"
    /\ Arrive(client, shop, code, state, session,
              Validate002(Request(client, shop, code, state, session)))

\* the token endpoint's answer: a JSON body with or without access_token, under
\* a success (ok) or another HTTP status, or the request or the parsing of its
\* body fails
AnswersOf(tokens, oks) ==
    {[kind |-> "token", access_token |-> t, ok |-> b] : t \in tokens, b \in oks}
      \cup {[kind |-> "no_token", access_token |-> "", ok |-> b] : b \in oks}
      \cup {[kind |-> k, access_token |-> "", ok |-> FALSE] :
              k \in {"network_error", "invalid_json"}}

\* the answers of a token endpoint whose JSON bodies come with a success status
Answers == AnswersOf(Tokens, {TRUE})
\* the answers of a token endpoint under any HTTP status
AnswersAnyStatus == AnswersOf(Tokens, BOOLEAN)

\* the request whose fetch has been answered
Answered(r, answer) == [r EXCEPT !.answer = answer]

Throws(answer) == answer.kind \in {"network_error", "invalid_json"}

\* a handler that would keep the access token in a variable shared by all
\* requests: the query takes the token another request obtained
QueryShared(r, token) ==
    LET others == {c.answer.access_token : c \in
                     {callbacks[j] : j \in 1..Len(callbacks)}} \ {"", token}
    IN [r EXCEPT !.pc = "query",
                 !.token = IF others = {} THEN token ELSE CHOOSE t \in others : TRUE,
                 !.queries = @ + 1]

\* pool.query(INSERT ... ON CONFLICT (shop) DO UPDATE ...) is called and awaited
Query(r, token) == [r EXCEPT !.pc = "query", !.token = token, !.queries = @ + 1]

\* a handler that would store tokenJson.access_token without looking at it
ExchangedNoTokenCheck(r, answer) ==
    IF Throws(answer) THEN Respond(r, 500, "OAuth callback error")
    ELSE Query(r, answer.access_token)

\* a handler that would send the token-exchange request once more after a
\* thrown error
ExchangedRetry(r, answer) ==
    IF Throws(answer) /\ r.fetches < 2 THEN Fetch(r)
    ELSE IF Throws(answer) THEN Respond(r, 500, "OAuth callback error")
    ELSE IF answer.kind = "no_token" THEN Respond(r, 400, "Failed to get access token")
    ELSE Query(r, answer.access_token)

\* part_000, part_002: from the token endpoint's answer to the next await
Exchanged000(r, answer) ==
    IF Throws(answer) THEN Respond(r, 500, "OAuth callback error")
    ELSE IF answer.kind = "no_token" THEN Respond(r, 400, "Failed to get access token")
    ELSE Query(r, answer.access_token)

\* index.js: from the token endpoint's answer to the next await
ExchangedIndex(r, answer) ==
    IF Throws(answer) \/ answer.kind = "no_token" THEN Respond(r, 500, "Installation Failed")
    ELSE IF databaseUrl THEN Query(r, answer.access_token)
    ELSE Respond([r EXCEPT !.token = answer.access_token], 200, "Installed Successfully")

TokenAnswer(i, handled) ==
    /\ i \in 1..Len(callbacks)
    /\ callbacks[i].pc = "fetch"
    /\ callbacks' = [callbacks EXCEPT ![i] = handled]
    /\ UNCHANGED <<jobs, jobLog, variant, databaseUrl, now, advances, oauthLog, cookies, jar,
                   jarSetAt, shops>>

TokenAnswerPart000(i, answer) ==
    /\ variant = "part_000"
    /\ i \in 1..Len(callbacks)
    /\ TokenAnswer(i, Exchanged000(Answered(callbacks[i], answer), answer))

TokenAnswerPart002(i, answer) ==
    /\ variant = "part_002"
    /\ i \in 1..Len(callbacks)
    /\ TokenAnswer(i, Exchanged000(Answered(callbacks[i], answer), answer))

TokenAnswerIndex(i, answer) ==
    /\ variant = "index"
    /\ i \in 1..Len(callbacks)
    /\ TokenAnswer(i, ExchangedIndex(Answered(callbacks[i], answer), answer))

\* a plain INSERT INTO shops, without ON CONFLICT
InsertOnly(table, shop, token) ==
    table \cup {[shop |-> shop, access_token |-> token]}

\* INSERT INTO shops ... ON CONFLICT (shop) DO UPDATE SET access_token = ...
Upsert(table, shop, token) ==
    {row \in table : row.shop # shop} \cup {[shop |-> shop, access_token |-> token]}

\* a handler that would leave the session as it is
SessionKept(r) == jar

\* part_000: req.session = null clears the cookie of the client that is answered
SessionCleared(r) == IF r.client = "browser" THEN EmptySession ELSE jar

\* part_000: the query returns (committed) or throws
QueryReturnPart000(i, committed) ==
    /\ variant = "part_000"
    /\ i \in 1..Len(callbacks)
    /\ callbacks[i].pc = "query"
    /\ LET r == callbacks[i] IN
       IF committed
       THEN /\ shops' = Upsert(shops, r.shop, r.token)
            /\ jar' = SessionCleared(r)
            /\ callbacks' = [callbacks EXCEPT
                   ![i] = Respond([r EXCEPT !.wrote = TRUE], 200, "Installed Successfully")]
       ELSE /\ callbacks' = [callbacks EXCEPT ![i] = Respond(r, 500, "OAuth callback error")]
            /\ UNCHANGED <<shops, jar>>
    /\ UNCHANGED <<jobs, jobLog, variant, databaseUrl, now, advances, oauthLog, cookies, jarSetAt>>

\* part_002: the query returns (committed) or throws
QueryReturnPart002(i, committed) ==
    /\ variant = "part_002"
    /\ i \in 1..Len(callbacks)
    /\ callbacks[i].pc = "query"
    /\ LET r == callbacks[i] IN
       IF committed
       THEN /\ shops' = Upsert(shops, r.shop, r.token)
            /\ callbacks' = [callbacks EXCEPT
                   ![i] = Respond([r EXCEPT !.wrote = TRUE], 200, "App installed!")]
       ELSE /\ callbacks' = [callbacks EXCEPT ![i] = Respond(r, 500, "OAuth callback error")]
            /\ UNCHANGED shops
    /\ UNCHANGED <<jobs, jobLog, variant, databaseUrl, now, advances, oauthLog, cookies, jar, jarSetAt>>

\* the next value of the serial column id
NextId(table) == Cardinality(table) + 1

\* a statement that would overwrite the whole row on conflict
UpsertReset(table, shop, token, at) ==
    {row \in table : row.shop # shop} \cup
    {[id |-> IF \E row \in table : row.shop = shop
             THEN (CHOOSE row \in table : row.shop = shop).id ELSE NextId(table),
      shop |-> shop, access_token |-> token, plan |-> "free", settings |-> "{}",
      created_at |-> <<at>>, updated_at |-> <<at>>]}

\* index.js: INSERT INTO shops (shop, access_token, plan, settings, created_at)
\* VALUES ($1, $2, 'free', '{}', NOW())
\* ON CONFLICT (shop) DO UPDATE SET access_token = $2, updated_at = NOW();
\* a time is <<ms>>, a column left to its default is <<>>
UpsertIndex(table, shop, token, at) ==
    IF \E row \in table : row.shop = shop
    THEN {IF row.shop = shop
          THEN [row EXCEPT !.access_token = token, !.updated_at = <<at>>]
          ELSE row : row \in table}
    ELSE table \cup
         {[id |-> NextId(table), shop |-> shop, access_token |-> token,
           plan |-> "free", settings |-> "{}",
           created_at |-> <<at>>, updated_at |-> <<>>]}

\* index.js: what the callback answers once the query has returned or thrown
\* (the catch around the query logs the error and goes on)
AfterQueryIndex(r, committed) ==
    Respond([r EXCEPT !.wrote = committed], 200, "Installed Successfully")

QueryReturnIndex(i, committed) ==
    /\ variant = "index"
    /\ i \in 1..Len(callbacks)
    /\ callbacks[i].pc = "query"
    /\ LET r == callbacks[i] IN
       /\ shops' = IF committed THEN UpsertIndex(shops, r.shop, r.token, now) ELSE shops
       /\ callbacks' = [callbacks EXCEPT ![i] = AfterQueryIndex(r, committed)]
    /\ UNCHANGED <<jobs, jobLog, variant, databaseUrl, now, advances, oauthLog, cookies, jar, jarSetAt>>

\* ------------------------------------------------------------- the clock
Advance(d) ==
    /\ advances < MaxAdvances
    /\ advances' = advances + 1
    /\ now' = now + d
    /\ UNCHANGED <<jobs, jobLog, variant, databaseUrl, oauthLog, cookies, jar, jarSetAt,
                   callbacks, shops>>

Clients == {"browser", "other"}
Slots == 1..MaxReqs

Next ==
    \/ \E shop \in OAuthShops : OAuthPart000(shop)
    \/ \E shop \in OAuthShops : OAuthIndex(shop)
    \/ \E shop \in OAuthShops : OAuthPart002(shop)
    \/ \E c \in Clients, shop \in CallbackShops, code \in Codes, state \in StatesSoFar,
          session \in cookies \cup {EmptySession} :
             CallbackPart000(c, shop, code, state, session)
    \/ \E c \in Clients, shop \in CallbackShops, code \in Codes, state \in StatesSoFar,
          session \in cookies \cup {EmptySession} :
             CallbackIndex(c, shop, code, state, session)
    \/ \E c \in Clients, shop \in CallbackShops, code \in Codes, state \in StatesSoFar,
          session \in cookies \cup {EmptySession} :
             CallbackPart002(c, shop, code, state, session)
    \/ \E i \in Slots, answer \in Answers : TokenAnswerPart000(i, answer)
    \/ \E i \in Slots, answer \in Answers : TokenAnswerIndex(i, answer)
    \/ \E i \in Slots, answer \in Answers : TokenAnswerPart002(i, answer)
    \/ \E i \in Slots, committed \in BOOLEAN : QueryReturnPart000(i, committed)
    \/ \E i \in Slots, committed \in BOOLEAN : QueryReturnIndex(i, committed)
    \/ \E i \in Slots, committed \in BOOLEAN : QueryReturnPart002(i, committed)

Spec == Init /\ [][Next]_vars

\* The session-backed handler (part_000) with the clock running: time passes by a
\* little more than the expiry window or than the cookie's maxAge.
InitTimed == Init /\ variant = "part_000"

NextTimed ==
    \/ \E shop \in Tenants : OAuthPart000(shop)
    \/ \E c \in Clients, shop \in Tenants, code \in Codes, state \in StatesSoFar,
          session \in cookies \cup {EmptySession} :
             CallbackPart000(c, shop, code, state, session)
    \/ \E i \in Slots, answer \in Answers : TokenAnswerPart000(i, answer)
    \/ \E i \in Slots, committed \in BOOLEAN : QueryReturnPart000(i, committed)
    \/ \E d \in {ExpiryWindow + 1, maxAge + 1} : Advance(d)

SpecTimed == InitTimed /\ [][NextTimed]_vars

\* The token exchange under every answer of the token endpoint, success status
\* or not: GET /oauth is called for the two shops, the callbacks are any.
NextExchange ==
    \/ \E shop \in Tenants : OAuthPart000(shop)
    \/ \E shop \in Tenants : OAuthIndex(shop)
    \/ \E shop \in Tenants : OAuthPart002(shop)
    \/ \E c \in Clients, shop \in CallbackShops, code \in Codes, state \in StatesSoFar,
          session \in cookies \cup {EmptySession} :
             CallbackPart000(c, shop, code, state, session)
    \/ \E c \in Clients, shop \in CallbackShops, code \in Codes, state \in StatesSoFar,
          session \in cookies \cup {EmptySession} :
             CallbackIndex(c, shop, code, state, session)
    \/ \E c \in Clients, shop \in CallbackShops, code \in Codes, state \in StatesSoFar,
          session \in cookies \cup {EmptySession} :
             CallbackPart002(c, shop, code, state, session)
    \/ \E i \in Slots, answer \in AnswersAnyStatus : TokenAnswerPart000(i, answer)
    \/ \E i \in Slots, answer \in AnswersAnyStatus : TokenAnswerIndex(i, answer)
    \/ \E i \in Slots, answer \in AnswersAnyStatus : TokenAnswerPart002(i, answer)
    \/ \E i \in Slots, committed \in BOOLEAN : QueryReturnPart000(i, committed)
    \/ \E i \in Slots, committed \in BOOLEAN : QueryReturnIndex(i, committed)
    \/ \E i \in Slots, committed \in BOOLEAN : QueryReturnPart002(i, committed)

SpecExchange == Init /\ [][NextExchange]_vars

\* index.js with a table that may already hold a row whose plan and settings
\* were changed since its installation, and a clock that moves on.
Later == 1000

StoredRow == [id |-> 1, shop |-> ShopA, access_token |-> "tok1", plan |-> "pro",
              settings |-> "{custom}", created_at |-> <<0>>, updated_at |-> <<>>]

InitReinstall ==
    /\ variant = "index"
    /\ databaseUrl = TRUE
    /\ now = 0
    /\ advances = 0
    /\ oauthLog = <<>>
    /\ cookies = {}
    /\ jar = EmptySession
    /\ jarSetAt = 0
    /\ callbacks = <<>>
    /\ shops \in {{}, {StoredRow}}
    /\ jobs = {}
    /\ jobLog = <<>>

NextReinstall ==
    \/ \E shop \in Tenants, code \in Codes :
             CallbackIndex("browser", shop, code, undefined, EmptySession)
    \/ \E i \in Slots, answer \in Answers : TokenAnswerIndex(i, answer)
    \/ \E i \in Slots, committed \in BOOLEAN : QueryReturnIndex(i, committed)
    \/ Advance(Later)

SpecReinstall == InitReinstall /\ [][NextReinstall]_vars

\* ------------------------------------------------- the jobs API (index.js)
\* getShopByDomain: result.rows of SELECT * FROM shops WHERE shop = $1
getShopByDomain(shopDomain) == {row \in shops : row.shop = shopDomain}

\* the next value of repurpose_jobs.id: one more than the rows inserted so far
NextJobId == Cardinality({k \in 1..Len(jobLog) : jobLog[k].status = 201}) + 1

\* res.status(status).json(...): rows are the rows the statement returned
JobAnswer(op, shop, jobId, status, rows) ==
    /\ jobLog' = Append(jobLog,
          [op |-> op, shop |-> shop, jobId |-> jobId, status |-> status, rows |-> rows])
    /\ UNCHANGED <<variant, databaseUrl, now, advances, oauthLog, cookies, jar, jarSetAt,
                   callbacks, shops>>

JobRequest == variant = "index" /\ Len(jobLog) < MaxJobOps

\* GET /api/jobs/:shop
JobList(shop) ==
    /\ JobRequest
    /\ UNCHANGED jobs
    /\ IF ~databaseUrl THEN JobAnswer("list", shop, 0, 500, {})
       ELSE IF getShopByDomain(shop) = {} THEN JobAnswer("list", shop, 0, 404, {})
       ELSE JobAnswer("list", shop, 0, 200,
                {job \in jobs : \E rec \in getShopByDomain(shop) : job.shop_id = rec.id})

\* POST /api/jobs/:shop
JobCreate(shop, video_url) ==
    /\ JobRequest
    /\ Cardinality(jobs) < MaxJobs
    /\ IF Falsy(video_url)
       THEN JobAnswer("create", shop, 0, 400, {}) /\ UNCHANGED jobs
       ELSE IF ~databaseUrl
       THEN JobAnswer("create", shop, 0, 500, {}) /\ UNCHANGED jobs
       ELSE IF getShopByDomain(shop) = {}
       THEN JobAnswer("create", shop, 0, 404, {}) /\ UNCHANGED jobs
       ELSE LET job == [id |-> NextJobId,
                        shop_id |-> (CHOOSE rec \in getShopByDomain(shop) : TRUE).id,
                        video_url |-> video_url, status |-> "pending"]
            IN /\ jobs' = jobs \cup {job}
               /\ JobAnswer("create", shop, job.id, 201, {job})

\* COALESCE($2, status)
Coalesce(value, old) == IF value = "null" THEN old ELSE value

\* PATCH /api/jobs/:jobId: UPDATE repurpose_jobs SET ... WHERE id = $1
JobPatch(jobId, status) ==
    /\ JobRequest
    /\ IF ~databaseUrl
       THEN JobAnswer("patch", undefined, jobId, 500, {}) /\ UNCHANGED jobs
       ELSE LET hit == {job \in jobs : job.id = jobId}
                updated == {[job EXCEPT !.status = Coalesce(status, @)] : job \in hit}
            IN /\ jobs' = (jobs \ hit) \cup updated
               /\ JobAnswer("patch", undefined, jobId,
                            IF updated = {} THEN 404 ELSE 200, updated)

\* GET /api/jobs/:shop/:jobId: SELECT ... WHERE id = $1 AND shop_id = $2
JobGet(shop, jobId) ==
    /\ JobRequest
    /\ UNCHANGED jobs
    /\ IF ~databaseUrl THEN JobAnswer("get", shop, jobId, 500, {})
       ELSE IF getShopByDomain(shop) = {} THEN JobAnswer("get", shop, jobId, 404, {})
       ELSE LET hit == {job \in jobs : /\ job.id = jobId
                                       /\ \E rec \in getShopByDomain(shop) :
                                              job.shop_id = rec.id}
            IN JobAnswer("get", shop, jobId, IF hit = {} THEN 404 ELSE 200, hit)

\* DELETE /api/jobs/:shop/:jobId: DELETE ... WHERE id = $1 AND shop_id = $2
JobDelete(shop, jobId) ==
    /\ JobRequest
    /\ IF ~databaseUrl
       THEN JobAnswer("delete", shop, jobId, 500, {}) /\ UNCHANGED jobs
       ELSE IF getShopByDomain(shop) = {}
       THEN JobAnswer("delete", shop, jobId, 404, {}) /\ UNCHANGED jobs
       ELSE LET hit == {job \in jobs : /\ job.id = jobId
                                       /\ \E rec \in getShopByDomain(shop) :
                                              job.shop_id = rec.id}
            IN /\ jobs' = jobs \ hit
               /\ JobAnswer("delete", shop, jobId, IF hit = {} THEN 404 ELSE 200, hit)

\* the table after shop-a and shop-b were installed
InstalledShops == UpsertIndex(UpsertIndex({}, ShopA, "tok1", 0), ShopB, "tok2", 0)

\* req.params.shop, req.params.jobId, req.body.video_url, req.body.status
JobShops == {ShopA, ShopB, ShopOther}
JobIds == 1..MaxJobs
VideoUrls == {undefined, <<"video.mp4">>}
Statuses == {"null", "success"}

InitJobs ==
    /\ variant = "index"
    /\ databaseUrl \in BOOLEAN
    /\ now = 0
    /\ advances = 0
    /\ oauthLog = <<>>
    /\ cookies = {}
    /\ jar = EmptySession
    /\ jarSetAt = 0
    /\ callbacks = <<>>
    /\ shops = IF databaseUrl THEN InstalledShops ELSE {}
    /\ jobs = {}
    /\ jobLog = <<>>

NextJobs ==
    \/ \E shop \in JobShops : JobList(shop)
    \/ \E shop \in JobShops, video_url \in VideoUrls : JobCreate(shop, video_url)
    \/ \E jobId \in JobIds, status \in Statuses : JobPatch(jobId, status)
    \/ \E shop \in JobShops, jobId \in JobIds : JobGet(shop, jobId)
    \/ \E shop \in JobShops, jobId \in JobIds : JobDelete(shop, jobId)

SpecJobs == InitJobs /\ [][NextJobs]_vars

\* The callback when the token endpoint may never answer: the handler's own steps
\* and the database's answer are taken whenever they stay possible; nothing makes
\* the token endpoint answer, and the handler sets no timer on its fetch.
InitLive == Init /\ variant \in {"part_000", "index"}

NextLive ==
    \/ \E shop \in Tenants : OAuthPart000(shop)
    \/ \E shop \in Tenants : OAuthIndex(shop)
    \/ \E shop \in Tenants, code \in Codes, state \in StatesSoFar :
             CallbackPart000("browser", shop, code, state, BrowserCookie)
    \/ \E shop \in Tenants, code \in Codes, state \in StatesSoFar :
             CallbackIndex("browser", shop, code, state, BrowserCookie)
    \/ \E i \in Slots, answer \in Answers : TokenAnswerPart000(i, answer)
    \/ \E i \in Slots, answer \in Answers : TokenAnswerIndex(i, answer)
    \/ \E i \in Slots, committed \in BOOLEAN : QueryReturnPart000(i, committed)
    \/ \E i \in Slots, committed \in BOOLEAN : QueryReturnIndex(i, committed)

SpecLive ==
    /\ InitLive
    /\ [][NextLive]_vars
    /\ WF_vars(\E i \in Slots, committed \in BOOLEAN : QueryReturnPart000(i, committed))
    /\ WF_vars(\E i \in Slots, committed \in BOOLEAN : QueryReturnIndex(i, committed))

\* ---------------------------------------------------------------- claims
\* the states GET /oauth has put into a redirect so far
IssuedStates == {oauthLog[i].state : i \in Redirects}

\* the redirect that carried the state
IssuedBy(state) == CHOOSE i \in Redirects : oauthLog[i].state = state

\* the callback that arrives in this step
Arrives == Len(callbacks') = Len(callbacks) + 1
Arriving == callbacks'[Len(callbacks')]

\* the callback was rejected at validation: HTTP 400, no token-exchange request
Rejected(r) == r.pc = "done" /\ r.status = 400 /\ ~r.sent /\ ~r.wrote

\* C1: a callback whose state is none that an earlier GET /oauth issued is
\* rejected with HTTP 400 and sends no token-exchange request (every variant).
C1_UnknownStateRejected ==
    \A i \in 1..Len(callbacks) :
        callbacks[i].state \notin IssuedStates => Rejected(callbacks[i])

\* C2: part_000: once a callback has returned success, a later callback with
\* the same state is rejected, whatever session cookie it presents.
C2_NoSuccessAfterSuccess ==
    [][(variant = "part_000" /\ Arrives
          /\ \E i \in 1..Len(callbacks) :
                /\ callbacks[i].status = 200
                /\ callbacks[i].state = Arriving.state)
        => Rejected(Arriving)]_vars

\* C3: part_000: while a callback that passed validation is in flight (awaiting
\* the token exchange or the database write), a second callback with the same
\* (shop, code, state) does not pass validation.
C3_OnePassesValidation ==
    [][(variant = "part_000" /\ Arrives
          /\ \E i \in 1..Len(callbacks) :
                /\ callbacks[i].pc \in {"fetch", "query"}
                /\ callbacks[i].shop = Arriving.shop
                /\ callbacks[i].code = Arriving.code
                /\ callbacks[i].state = Arriving.state)
        => Rejected(Arriving)]_vars

\* C4: part_000: the pending authorization is consumed at validation: once a
\* callback has passed validation and then failed at the token exchange or at the
\* database write, a later callback with the same state is rejected.
C4_ConsumedAtValidation ==
    [][(variant = "part_000" /\ Arrives
          /\ \E i \in 1..Len(callbacks) :
                /\ callbacks[i].sent
                /\ callbacks[i].pc = "done"
                /\ callbacks[i].status # 200
                /\ callbacks[i].state = Arriving.state)
        => Rejected(Arriving)]_vars

\* C5: part_000: a callback whose state was issued for one shop and whose shop
\* parameter is another one is rejected with HTTP 400; no token-exchange request
\* is sent and no row is written for it.
C5_CrossTenantRejected ==
    variant = "part_000" =>
        \A i \in 1..Len(callbacks) :
            LET r == callbacks[i] IN
            (r.state \in IssuedStates /\ oauthLog[IssuedBy(r.state)].shop # r.shop)
                => Rejected(r)

\* C5, witness: a callback that carries shop, code, the state of a pending
\* authorization and its session, for another shop than the state was issued for,
\* has been answered.
C5_Witness ==
    /\ variant = "part_000"
    /\ \E i \in 1..Len(callbacks) :
          LET r == callbacks[i] IN
          /\ r.state \in IssuedStates
          /\ r.session.oauthState = r.state
          /\ ~Falsy(r.shop) /\ ~Falsy(r.code)
          /\ oauthLog[IssuedBy(r.state)].shop # r.shop
          /\ r.pc = "done"

\* C6: a callback whose pending authorization is older than the expiry window
\* of 10 minutes is rejected and sends no token-exchange request.
C6_ExpiredRejected ==
    \A i \in 1..Len(callbacks) :
        LET r == callbacks[i] IN
        (r.state \in IssuedStates
            /\ r.at - oauthLog[IssuedBy(r.state)].at > ExpiryWindow)
          => Rejected(r)

\* C7: part_000: every pending authorization stays valid until consumed: when
\* the browser has called GET /oauth for one shop only (once or, as a retry,
\* twice), its callback that carries this shop, a code and any of the states
\* issued, which no callback has passed validation with before, passes
\* validation, also when a later GET /oauth has issued another state.
C7_EachPendingStaysValid ==
    [][(variant = "part_000" /\ Arrives
          /\ Arriving.client = "browser"
          /\ ~Falsy(Arriving.code)
          /\ Arriving.state \in IssuedStates
          /\ \A j \in Redirects : oauthLog[j].shop = Arriving.shop
          /\ \A i \in 1..Len(callbacks) :
                ~(callbacks[i].sent /\ callbacks[i].state = Arriving.state))
        => Arriving.sent]_vars

\* C8: every redirect of GET /oauth carries a state for which a pending
\* authorization binding it to the shop has been recorded (every variant).
C8_RedirectStateRecorded ==
    \A i \in Redirects :
        [oauthState |-> oauthLog[i].state, shop |-> oauthLog[i].shop] \in cookies

\* C9: GET /oauth redirects only for a non-empty shop that ends with
\* '.myshopify.com' and answers HTTP 400 for every other shop.
C9_RedirectOnlyForShopDomain ==
    \A i \in 1..Len(oauthLog) :
        LET e == oauthLog[i] IN
        /\ e.status = 302 => (~Falsy(e.shop) /\ EndsWith(e.shop, Suffix))
        /\ ~(~Falsy(e.shop) /\ EndsWith(e.shop, Suffix)) => e.status = 400

\* C10: index.js, part_000: the callback answers success (HTTP 200) only if the
\* upsert into shops has committed in that request.
C10_SuccessOnlyIfPersisted ==
    variant \in {"index", "part_000"} =>
        \A i \in 1..Len(callbacks) :
            callbacks[i].status = 200 => callbacks[i].wrote

\* the callbacks received so far
Received == 1..Len(callbacks)

\* the callback ended in a failure and wrote nothing
FailedWithoutWrite(r) ==
    r.pc = "done" /\ r.status \in {400, 500} /\ ~r.wrote /\ r.queries = 0

\* C11: when the token endpoint's body has no access_token, the callback fails
\* (no success response) and writes no row.
C11_NoTokenFailsWithoutWrite ==
    \A i \in Received :
        callbacks[i].answer.kind = "no_token" => FailedWithoutWrite(callbacks[i])

C11_Witness ==
    \E i \in Received :
        /\ callbacks[i].answer.kind = "no_token"
        /\ callbacks[i].pc = "done"
        /\ shops = {}

\* C12: the callback fails and writes nothing when the exchange request raises
\* an error, when the token endpoint answers with a non-success HTTP status
\* (whatever its body), or when the body has no access_token.
C12_ExchangeFailureWithoutWrite ==
    \A i \in Received :
        LET a == callbacks[i].answer IN
        (a.kind # "none" /\ (Throws(a) \/ ~a.ok \/ a.kind = "no_token"))
            => FailedWithoutWrite(callbacks[i])

\* the rows of a table for one shop, for the other shops
RowsOf(table, shop) == {row \in table : row.shop = shop}
RowsNotOf(table, shop) == {row \in table : row.shop # shop}

\* C13: the table holds at most one row per shop; a committed write leaves
\* exactly one row for its shop, with the token it wrote (last write wins), and
\* leaves the rows of every other shop as they were.
C13_OneRowLastWriteWins ==
    [][/\ \A row \in shops' : Cardinality(RowsOf(shops', row.shop)) = 1
       /\ \A i \in Received :
            (callbacks[i].pc = "query" /\ callbacks'[i].wrote) =>
                /\ Cardinality(RowsOf(shops', callbacks[i].shop)) = 1
                /\ \A row \in RowsOf(shops', callbacks[i].shop) :
                      row.access_token = callbacks[i].token
                /\ RowsNotOf(shops', callbacks[i].shop) = RowsNotOf(shops, callbacks[i].shop)
      ]_vars

C13_Witness ==
    \E i, j \in Received :
        /\ i # j
        /\ callbacks[i].wrote /\ callbacks[j].wrote
        /\ callbacks[i].shop = callbacks[j].shop
        /\ callbacks[i].token # callbacks[j].token
        /\ Cardinality(RowsOf(shops, callbacks[i].shop)) = 1

\* C14: in every variant a callback without shop or without code is answered
\* with HTTP 400 at once: no token-exchange request, no write, and the session
\* that holds the pending authorization is left as it is.
C14_MissingParameterRejected ==
    [][(Arrives /\ (Falsy(Arriving.shop) \/ Falsy(Arriving.code)))
        => /\ Rejected(Arriving)
           /\ Arriving.fetches = 0 /\ Arriving.queries = 0
           /\ UNCHANGED <<shops, jar, jarSetAt, cookies>>]_vars

C14_Witness ==
    \E i \in Received :
        /\ variant = "part_000"
        /\ ~Falsy(callbacks[i].shop) /\ Falsy(callbacks[i].code)
        /\ callbacks[i].state # undefined
        /\ callbacks[i].state = callbacks[i].session.oauthState
        /\ callbacks[i].shop = callbacks[i].session.shop
        /\ callbacks[i].status = 400
        /\ jar = callbacks[i].session

\* C15: one callback sends at most one token-exchange request and issues at
\* most one write, whatever path it takes.
C15_NoRetry ==
    \A i \in Received : callbacks[i].fetches <= 1 /\ callbacks[i].queries <= 1

C15_Witness ==
    \E i, j \in Received :
        /\ Throws(callbacks[i].answer) /\ callbacks[i].pc = "done"
        /\ callbacks[i].fetches = 1
        /\ callbacks[j].queries = 1 /\ callbacks[j].pc = "done" /\ ~callbacks[j].wrote
        /\ callbacks[j].fetches = 1

\* C16: every callback that passed validation and waits for the token endpoint
\* is eventually answered.
C16_ValidatedEventuallyAnswered ==
    \A i \in Slots :
        (i \in Received /\ callbacks[i].pc = "fetch")
            ~> (i \in Received /\ callbacks[i].pc = "done")

\* C17: part_000, happy path: the callback of the browser that carries the state
\* GET /oauth issued for its shop, whose exchange returned a token and whose
\* write commits, answers 200, the table maps the shop to that token, and the
\* browser's session no longer holds the pending state.
C17_HappyPathPersisted ==
    [][\A i \in Received :
         (/\ QueryReturnPart000(i, TRUE)
          /\ callbacks[i].client = "browser"
          /\ callbacks[i].state \in IssuedStates
          /\ oauthLog[IssuedBy(callbacks[i].state)].shop = callbacks[i].shop
          /\ callbacks[i].answer.kind = "token")
         => /\ callbacks'[i].pc = "done" /\ callbacks'[i].status = 200
            /\ RowsOf(shops', callbacks[i].shop) =
                  {[shop |-> callbacks[i].shop,
                    access_token |-> callbacks[i].answer.access_token]}
            /\ jar'.oauthState # callbacks[i].state
      ]_vars

C17_Witness ==
    \E i \in Received :
        /\ variant = "part_000"
        /\ callbacks[i].client = "browser"
        /\ callbacks[i].state \in IssuedStates
        /\ oauthLog[IssuedBy(callbacks[i].state)].shop = callbacks[i].shop
        /\ callbacks[i].status = 200 /\ callbacks[i].wrote
        /\ [shop |-> callbacks[i].shop,
            access_token |-> callbacks[i].answer.access_token] \in shops
        /\ jar = EmptySession

\* C18: index.js and part_000: a callback rejected at validation answers 400; a
\* token endpoint's answer without access_token gives 400; 500 is given only
\* after a thrown exchange error or a thrown database error.
C18_StatusFollowsErrorClass ==
    \A i \in Received :
        LET r == callbacks[i] IN
        (variant \in {"index", "part_000"} /\ r.pc = "done") =>
            /\ ~r.sent => r.status = 400
            /\ r.answer.kind = "no_token" => r.status = 400
            /\ r.status = 500 => (Throws(r.answer) \/ (r.queries = 1 /\ ~r.wrote))

\* C19: in every redirect of GET /oauth the scope list and the redirect URI are
\* URL-encoded exactly once.
C19_ComponentsEncodedOnce ==
    \A i \in Redirects :
        /\ oauthLog[i].url.scope = EncodeURIComponent(Join(ScopeList, ","))
        /\ oauthLog[i].url.redirect_uri = EncodeURIComponent(RedirectUri)

\* C20: index.js and part_000: the state of every redirect comes from a secure
\* generator, carries at least 128 random bits, and differs from the state of
\* every other redirect.
C20_StateEntropy ==
    \A i \in Redirects :
        (variant \in {"index", "part_000"}) =>
            /\ oauthLog[i].generator.secure
            /\ oauthLog[i].generator.bits >= 128
            /\ \A j \in Redirects : j # i => oauthLog[j].state # oauthLog[i].state

\* part_000: a callback with the session's own shop and state and a code passes
\* validation
PassesValidation(session) ==
    Validate000(Request("browser", session.shop, <<"code123">>, session.oauthState,
                        session)).pc = "fetch"

\* C21: part_000: a callback rejected at validation leaves the session, the
\* cookies and the table as they were, so a callback with the session's shop and
\* state that passed validation before still passes it afterwards.
C21_RejectionChangesNothing ==
    [][(variant = "part_000" /\ Arrives /\ Rejected(Arriving))
        => /\ UNCHANGED <<jar, jarSetAt, cookies, shops>>
           /\ PassesValidation(jar) => PassesValidation(jar')]_vars

C21_Witness ==
    /\ variant = "part_000"
    /\ Len(callbacks) = 2
    /\ callbacks[1].client = "browser" /\ callbacks[2].client = "browser"
    /\ callbacks[1].session.oauthState # undefined
    /\ Rejected(callbacks[1])
    /\ callbacks[2].session = callbacks[1].session
    /\ callbacks[2].state = callbacks[2].session.oauthState
    /\ callbacks[2].sent

\* C22: whatever the interleaving, a request issues its write only after its own
\* token exchange returned an access_token, and the row it commits holds its
\* shop and the access_token of its own answer.
C22_OwnTokenWritten ==
    [][/\ \A i \in 1..Len(callbacks') :
            callbacks'[i].queries > 0 => callbacks'[i].answer.kind = "token"
       /\ \A i \in Received :
            (callbacks[i].pc = "query" /\ callbacks'[i].wrote) =>
                \E row \in shops' :
                    /\ row.shop = callbacks[i].shop
                    /\ row.access_token = callbacks[i].answer.access_token
       /\ shops' # shops =>
            \E i \in Received : callbacks[i].pc = "query" /\ callbacks'[i].wrote
      ]_vars

C22_Witness ==
    \E i, j \in Received :
        /\ callbacks[i].wrote /\ callbacks[j].wrote
        /\ callbacks[i].shop # callbacks[j].shop
        /\ callbacks[i].answer.access_token # callbacks[j].answer.access_token
        /\ \E row \in shops : row.shop = callbacks[i].shop
                              /\ row.access_token = callbacks[i].answer.access_token
        /\ \E row \in shops : row.shop = callbacks[j].shop
                              /\ row.access_token = callbacks[j].answer.access_token

\* the row of a shop in a table that holds one
RowOf(table, shop) == CHOOSE row \in table : row.shop = shop

\* C23: index.js: a committed write for a shop that has a row changes only
\* access_token and updated_at of that row (id, plan, settings and created_at
\* stay); a committed write for a shop without a row inserts plan 'free' and
\* settings {}.
C23_ReinstallKeepsPlan ==
    [][\A i \in Received :
         (variant = "index" /\ callbacks[i].pc = "query" /\ callbacks'[i].wrote) =>
            LET shop == callbacks[i].shop
                new == RowOf(shops', shop)
            IN IF RowsOf(shops, shop) # {}
               THEN /\ new.access_token = callbacks[i].token
                    /\ new.id = RowOf(shops, shop).id
                    /\ new.plan = RowOf(shops, shop).plan
                    /\ new.settings = RowOf(shops, shop).settings
                    /\ new.created_at = RowOf(shops, shop).created_at
               ELSE new.plan = "free" /\ new.settings = "{}"
      ]_vars

C23_Witness ==
    \E i, j \in Received :
        /\ callbacks[i].wrote /\ callbacks[i].shop = ShopA
        /\ callbacks[j].wrote /\ callbacks[j].shop = ShopB
        /\ RowsOf(shops, ShopA) # {} /\ RowsOf(shops, ShopB) # {}
        /\ RowOf(shops, ShopA).plan = "pro"
        /\ RowOf(shops, ShopA).access_token = "tok2"
        /\ RowOf(shops, ShopA).updated_at = <<Later>>
        /\ RowOf(shops, ShopA).created_at = <<0>>
        /\ RowOf(shops, ShopB).plan = "free"

\* C24: index.js: whenever the database is reachable, a read, update or delete
\* of a job answers 404 unless the shop named in the request has a row in shops,
\* and every job it returns, modifies or deletes belongs to that shop.
C24_JobsConfinedToShop ==
    \A k \in 1..Len(jobLog) :
        LET e == jobLog[k] IN
        (databaseUrl /\ e.op \in {"get", "patch", "delete"}) =>
            /\ getShopByDomain(e.shop) = {} => e.status = 404
            /\ \A job \in e.rows :
                  \E rec \in getShopByDomain(e.shop) : job.shop_id = rec.id

====
